---------------------------- MODULE Spec2Model ----------------------------
(***************************************************************************)
(* The Schelling segregation model of                                      *)
(*   src/Week 6 - Agent-Based Models and Experiments/                      *)
(*       Agent-Based Models Schelling Segregation.ipynb                    *)
(* initialize_grid, fraction_neighbors_same, is_satisfied, update and the  *)
(* drivers that call update in a loop.                                     *)
(*                                                                         *)
(* Numbers.  np.random.rand() and the fractions and thresholds it is       *)
(* compared with are rationals, written <<num, den>> with den > 0.  The    *)
(* value same / total returned by fraction_neighbors_same has total in     *)
(* 1..8, so it is kept exactly as the integer same * Scale \div total with *)
(* Scale the least common multiple of 1..8: equal quotients are equal      *)
(* values, as they are for the floats of the code.                         *)
(***************************************************************************)
EXTENDS Integers, Sequences, FiniteSets, TLC

\* Largest grid side of the simulation runs (Spec).
MaxSize == 2
\* Largest grid side on which the evaluators are applied cell by cell (SpecEval).
MaxEvalSize == 3
\* Largest agents_per_step of a run.
MaxAgentsPerStep == 2
\* Number of calls of update a driver makes at most: the model's stand-in for
\* range(100) of the experiment loops and frames=100 of the animation.
MaxTicks == 3

VARIABLES
    size,                  \* parameter: side of the grid
    fraction_empty,        \* parameter of initialize_grid
    fraction_A,            \* parameter of initialize_grid
    similarity_threshold,  \* parameter of update / is_satisfied
    agents_per_step,       \* parameter of update
    driver,                \* which loop calls update: "experiment" or "animation"
    grid,                  \* [Coords(size) -> 0..2], the numpy array
    emptycells,            \* the list of empty coordinates (index 0 is element 1)
    pc,                    \* where the program is
    i,                     \* iterations of update's for loop already made
    was_move,              \* update's local flag, then its third return value
    ticks,                 \* calls of update made so far
    sample,                \* what the latest iteration (or evaluation) saw and did
    initial,               \* the grid and list initialize_grid returned
    similarity,            \* what average_neighbor_similarity last returned
    hist                   \* the grid and list at the start of the current call of
                           \* update, and the cells it sampled since

vars == <<size, fraction_empty, fraction_A, similarity_threshold, agents_per_step,
          driver, grid, emptycells, pc, i, was_move, ticks, sample, initial,
          similarity, hist>>

\* What a run never changes: the parameters, and the record of the initial grid.
params == <<size, fraction_empty, fraction_A, similarity_threshold, agents_per_step,
            driver, initial>>

----------------------------------------------------------------------------
(* Rationals *)

Zero == <<0, 1>>
Half == <<1, 2>>
One == <<1, 1>>

\* Lt with <= for <.
Lt_OrEqual(a, b) == a[1] * b[2] <= b[1] * a[2]

\* a < b
Lt(a, b) == a[1] * b[2] < b[1] * a[2]

\* The values np.random.rand() is given here: it draws from [0, 1).
Rands == {Zero, Half}
\* fraction_empty and fraction_A are "floats in [0,1]".
Fractions == {Zero, Half, One}
\* 0.0, 0.5, 1.0 and 1.01
Thresholds == {Zero, Half, One, <<101, 100>>}

Scale == 8 * 7 * 5 * 3

----------------------------------------------------------------------------
(* The grid *)

Empty == 0
TypeA == 1
TypeB == 2

Coords(n) == (0 .. n - 1) \X (0 .. n - 1)

\* grid.shape[0] (= grid.shape[1]: initialize_grid builds size x size arrays)
Shape(g) == CHOOSE n \in 1 .. Cardinality(DOMAIN g) : n * n = Cardinality(DOMAIN g)

\* CellCode with the two types coded 2 and 3.
CellCode_Shifted(d, fe, fa) ==
    IF Lt(d[1], fe) THEN Empty
    ELSE IF Lt(d[2], fa) THEN TypeB
    ELSE TypeB + 1

\* One cell of initialize_grid: the body of its inner loop.  d[1] is the first
\* rand() and d[2] the second, which is drawn only when the first test fails.
CellCode(d, fe, fa) ==
    IF Lt(d[1], fe) THEN Empty
    ELSE IF Lt(d[2], fa) THEN TypeA
    ELSE TypeB

\* empty_cells after the first k cells in the order of the two nested loops
\* (i outer, j inner): cell number c is (c \div n, c % n).
RECURSIVE EmptyAppended(_, _, _, _, _)
EmptyAppended(n, fe, fa, draws, k) ==
    IF k = 0 THEN << >>
    ELSE LET c == <<(k - 1) \div n, (k - 1) % n>>
             before == EmptyAppended(n, fe, fa, draws, k - 1)
         IN  IF CellCode(draws[c], fe, fa) = Empty THEN Append(before, c)
             ELSE before

\* initialize_grid(size, fraction_empty, fraction_A) under the random draws
\* `draws`: <<grid, empty_cells>>.
initialize_grid(n, fe, fa, draws) ==
    << [c \in Coords(n) |-> CellCode(draws[c], fe, fa)],
       EmptyAppended(n, fe, fa, draws, n * n) >>


----------------------------------------------------------------------------
(* fraction_neighbors_same and is_satisfied *)

\* Python's None, and a float same / total, as results of
\* fraction_neighbors_same.
None == [none |-> TRUE, val |-> 0]
Some(v) == [none |-> FALSE, val |-> v]

\* The Moore neighbourhood, in the order of the list.
directions ==
    << <<-1, -1>>, <<-1, 0>>, <<-1, 1>>, <<0, -1>>,
       <<0, 1>>, <<1, -1>>, <<1, 0>>, <<1, 1>> >>

\* NeighborAt on a grid with edges: a coordinate off the grid is clipped to the
\* nearest row or column instead of wrapped.
NeighborAt_Clipped(x, y, d, n) ==
    LET clip(v) == IF v < 0 THEN 0 ELSE IF v > n - 1 THEN n - 1 ELSE v
    IN  <<clip(x + d[1]), clip(y + d[2])>>

\* nx, ny = (x + dx) % grid.shape[0], (y + dy) % grid.shape[1], for a grid of
\* shape (n, n).  Python's % and TLA+'s agree: with a positive modulus the
\* result is in 0..n-1.
NeighborAt(x, y, d, n) ==
    <<(x + d[1]) % n, (y + d[2]) % n>>

\* The coordinates the for loop over directions looks up, in order.
NeighborCoords(x, y, g) ==
    LET n == Shape(g)
    IN  [k \in 1 .. Len(directions) |-> NeighborAt(x, y, directions[k], n)]

\* CountNeighbors with Empty neighbours counted in total.
RECURSIVE CountNeighbors_CountsEmpty(_, _, _, _)
CountNeighbors_CountsEmpty(agent, nbrs, g, k) ==
    IF k = 0 THEN <<0, 0>>
    ELSE LET before == CountNeighbors_CountsEmpty(agent, nbrs, g, k - 1)
             neighbor == g[nbrs[k]]
         IN  <<before[1] + (IF neighbor = agent THEN 1 ELSE 0), before[2] + 1>>

\* <<same, total>> after the first k directions of the loop, nbrs[k] being the
\* k-th (nx, ny).
RECURSIVE CountNeighbors(_, _, _, _)
CountNeighbors(agent, nbrs, g, k) ==
    IF k = 0 THEN <<0, 0>>
    ELSE LET before == CountNeighbors(agent, nbrs, g, k - 1)
             neighbor == g[nbrs[k]]
         IN  IF neighbor > 0
             THEN <<before[1] + (IF neighbor = agent THEN 1 ELSE 0), before[2] + 1>>
             ELSE before

\* fraction_neighbors_same without the test for an Empty cell.
fraction_neighbors_same_NoEmptyTest(x, y, g) ==
    LET st == CountNeighbors(g[<<x, y>>], NeighborCoords(x, y, g), g,
                             Len(directions))
    IN  IF st[2] = 0 THEN None
        ELSE Some((st[1] * Scale) \div st[2])

fraction_neighbors_same(x, y, g) ==
    LET agent == g[<<x, y>>]
    IN  IF agent = 0 THEN None
        ELSE LET st == CountNeighbors(agent, NeighborCoords(x, y, g), g,
                                      Len(directions))
             IN  IF st[2] = 0 THEN None
                 ELSE Some((st[1] * Scale) \div st[2])

\* The cells fraction_neighbors_same reads besides (x, y) itself: none when it
\* returns at the first test.
LookedUp(x, y, g) ==
    IF g[<<x, y>>] = 0 THEN << >> ELSE NeighborCoords(x, y, g)

\* AtLeast with the comparison reversed: fraction_same <= similarity_threshold.
AtLeast_Reversed(f, thr) == f.val * thr[2] <= thr[1] * Scale

\* AtLeast with a strict comparison: fraction_same > similarity_threshold.
AtLeast_Strict(f, thr) == f.val * thr[2] > thr[1] * Scale

\* fraction_same >= similarity_threshold
AtLeast(f, thr) == f.val * thr[2] >= thr[1] * Scale

\* is_satisfied without the test for None, None counting as 0.0.
is_satisfied_NoneAsZero(x, y, g, thr) ==
    AtLeast([none |-> FALSE, val |-> fraction_neighbors_same(x, y, g).val], thr)

is_satisfied(x, y, g, thr) ==
    LET fraction_same == fraction_neighbors_same(x, y, g)
    IN  IF fraction_same.none THEN TRUE
        ELSE AtLeast(fraction_same, thr)

----------------------------------------------------------------------------
(* average_neighbor_similarity *)

\* The results of np.mean: nan, or the float sum / count, kept exactly as the
\* sum of the fractions (each an integer over Scale) and their number.
NaN == [kind |-> "nan", sum |-> 0, count |-> 0]
Mean(sum, count) == [kind |-> "value", sum |-> sum, count |-> count]
\* No call of average_neighbor_similarity has been made yet.
NotMeasured == [kind |-> "unset", sum |-> 0, count |-> 0]

\* Collected with None appended as 0.0.
RECURSIVE Collected_NoneAsZero(_, _, _)
Collected_NoneAsZero(g, n, k) ==
    IF k = 0 THEN << >>
    ELSE LET before == Collected_NoneAsZero(g, n, k - 1)
             f == fraction_neighbors_same((k - 1) \div n, (k - 1) % n, g)
         IN  Append(before, f.val)

\* The list l after the first k cells of the two nested loops (i outer, j
\* inner) over a grid of shape (n, n): f is appended when it is not None.
RECURSIVE Collected(_, _, _)
Collected(g, n, k) ==
    IF k = 0 THEN << >>
    ELSE LET before == Collected(g, n, k - 1)
             f == fraction_neighbors_same((k - 1) \div n, (k - 1) % n, g)
         IN  IF ~f.none THEN Append(before, f.val) ELSE before

\* The sum of the elements of l.
RECURSIVE SumOf(_)
SumOf(l) == IF Len(l) = 0 THEN 0 ELSE l[1] + SumOf(Tail(l))

\* np_mean as sum(l) / len(l), which raises ZeroDivisionError on an empty list.
np_mean_Raises(l) ==
    IF Len(l) = 0 THEN [kind |-> "raised", sum |-> 0, count |-> 0]
    ELSE Mean(SumOf(l), Len(l))

\* np.mean(l): the mean of an empty list is nan (numpy warns and returns it;
\* it does not raise).
np_mean(l) ==
    IF Len(l) = 0 THEN NaN ELSE Mean(SumOf(l), Len(l))

average_neighbor_similarity(g) ==
    LET n == Shape(g)
    IN  np_mean(Collected(g, n, n * n))

----------------------------------------------------------------------------
(* Initial states *)

Drivers == {"experiment", "animation"}

NoSample ==
    [kind |-> "none", x |-> 0, y |-> 0, thr |-> Zero, frac |-> None, sat |-> TRUE,
     looked |-> << >>, randindex |-> 0, dest |-> <<0, 0>>]

StartOfCall(g, ec) == [grid0 |-> g, empty0 |-> ec, cells |-> << >>, moves |-> 0]

\* The state after grid, emptycells = initialize_grid(size, fraction_empty,
\* fraction_A), for the parameters and draws of the given sets.
InitFrom(sizes, fracs, drawset, thresholds, steps, drivers, start) ==
    \E n \in sizes, fe \in fracs, fa \in fracs, thr \in thresholds,
       aps \in steps, drv \in drivers :
        \E draws \in [Coords(n) -> drawset] :
            LET made == initialize_grid(n, fe, fa, draws)
            IN  /\ size = n
                /\ fraction_empty = fe
                /\ fraction_A = fa
                /\ similarity_threshold = thr
                /\ agents_per_step = aps
                /\ driver = drv
                /\ grid = made[1]
                /\ emptycells = made[2]
                /\ pc = start
                /\ i = 0
                /\ was_move = FALSE
                /\ ticks = 0
                /\ sample = NoSample
                /\ initial = [grid |-> made[1], emptycells |-> made[2]]
                /\ similarity = NotMeasured
                /\ hist = StartOfCall(made[1], made[2])

Init ==
    InitFrom(1 .. MaxSize, Fractions, Rands \X Rands, Thresholds,
             1 .. MaxAgentsPerStep, Drivers, "start")

----------------------------------------------------------------------------
(* update, one iteration of its for loop at a time *)

\* What an iteration that sampled (x, y) records.
Sampled(kind, x, y, randindex, dest) ==
    [kind |-> kind, x |-> x, y |-> y, thr |-> similarity_threshold,
     frac |-> fraction_neighbors_same(x, y, grid),
     sat |-> is_satisfied(x, y, grid, similarity_threshold),
     looked |-> LookedUp(x, y, grid), randindex |-> randindex, dest |-> dest]

\* ReplaceEntry that appends the vacated cell and keeps the entry moved to.
ReplaceEntry_Append(ec, randindex, x, y) ==
    Append(ec, <<x, y>>)

\* ReplaceEntry as an order-preserving removal of the entry moved to, followed
\* by an append of the vacated cell.
ReplaceEntry_Remove(ec, randindex, x, y) ==
    Append(SubSeq(ec, 1, randindex) \o SubSeq(ec, randindex + 2, Len(ec)),
           <<x, y>>)

\* emptycells[randindex] = (x,y): Python's index 0 is element 1 of the sequence.
ReplaceEntry(ec, randindex, x, y) ==
    [ec EXCEPT ![randindex + 1] = <<x, y>>]

\* MoveAgent that copies the agent and does not clear the cell it left.
MoveAgent_NoClear(g, x, y, new) ==
    [g EXCEPT ![new] = g[<<x, y>>]]

\* MoveAgent as two statements in the wrong order: grid[x, y] = 0, then
\* grid[new_x, new_y] = grid[x, y].
MoveAgent_ClearFirst(g, x, y, new) ==
    LET first == [g EXCEPT ![<<x, y>>] = 0]
    IN  [first EXCEPT ![new] = first[<<x, y>>]]

\* grid[new_x, new_y], grid[x, y] = grid[x, y], 0: the right-hand side is
\* evaluated first, then the two targets are assigned from left to right.
MoveAgent(g, x, y, new) ==
    LET moved == g[<<x, y>>]
        first == [g EXCEPT ![new] = moved]
    IN  [first EXCEPT ![<<x, y>>] = 0]

\* A driver calls update: was_move = False, and the for loop starts.
CallUpdate ==
    /\ pc = "driver"
    /\ ticks < MaxTicks
    /\ pc' = "loop"
    /\ i' = 0
    /\ was_move' = FALSE
    /\ ticks' = ticks + 1
    /\ hist' = StartOfCall(grid, emptycells)
    /\ UNCHANGED <<params, grid, emptycells, sample, similarity>>

\* SampleSatisfied with an else branch that sets was_move = False.
SampleSatisfied_ResetsFlag(x, y) ==
    /\ is_satisfied(x, y, grid, similarity_threshold)
    /\ sample' = Sampled("satisfied", x, y, 0, <<x, y>>)
    /\ hist' = [hist EXCEPT !.cells = Append(@, <<x, y>>)]
    /\ i' = i + 1
    /\ was_move' = FALSE
    /\ UNCHANGED <<grid, emptycells, pc>>

\* An iteration whose sampled cell is satisfied: nothing moves.
SampleSatisfied(x, y) ==
    /\ is_satisfied(x, y, grid, similarity_threshold)
    /\ sample' = Sampled("satisfied", x, y, 0, <<x, y>>)
    /\ hist' = [hist EXCEPT !.cells = Append(@, <<x, y>>)]
    /\ i' = i + 1
    /\ UNCHANGED <<grid, emptycells, was_move, pc>>

\* SampleMove deciding on the grid as it was when update was called: the moves
\* of a call are decided as a batch and then applied.
SampleMove_Stale(x, y) ==
    /\ ~is_satisfied(x, y, hist.grid0, similarity_threshold)
    /\ Len(emptycells) > 0
    /\ \E randindex \in 0 .. Len(emptycells) - 1 :
        LET new == emptycells[randindex + 1]
        IN  /\ emptycells' = [emptycells EXCEPT ![randindex + 1] = <<x, y>>]
            /\ grid' = [grid EXCEPT ![new] = grid[<<x, y>>], ![<<x, y>>] = 0]
            /\ sample' = Sampled("moved", x, y, randindex, new)
    /\ was_move' = TRUE
    /\ hist' = [hist EXCEPT !.cells = Append(@, <<x, y>>), !.moves = @ + 1]
    /\ i' = i + 1
    /\ UNCHANGED pc

\* SampleMove without was_move = True.
SampleMove_NoFlag(x, y) ==
    /\ ~is_satisfied(x, y, grid, similarity_threshold)
    /\ Len(emptycells) > 0
    /\ \E randindex \in 0 .. Len(emptycells) - 1 :
        LET new == emptycells[randindex + 1]
        IN  /\ emptycells' = [emptycells EXCEPT ![randindex + 1] = <<x, y>>]
            /\ grid' = [grid EXCEPT ![new] = grid[<<x, y>>], ![<<x, y>>] = 0]
            /\ sample' = Sampled("moved", x, y, randindex, new)
    /\ was_move' = was_move
    /\ hist' = [hist EXCEPT !.cells = Append(@, <<x, y>>), !.moves = @ + 1]
    /\ i' = i + 1
    /\ UNCHANGED pc

\* An iteration whose sampled cell is not satisfied, with an empty cell to
\* move to: the agent moves to the cell at a random index of emptycells.
SampleMove(x, y) ==
    /\ ~is_satisfied(x, y, grid, similarity_threshold)
    /\ Len(emptycells) > 0
    /\ \E randindex \in 0 .. Len(emptycells) - 1 :
        LET new == emptycells[randindex + 1]
        IN  /\ emptycells' = ReplaceEntry(emptycells, randindex, x, y)
            /\ grid' = MoveAgent(grid, x, y, new)
            /\ sample' = Sampled("moved", x, y, randindex, new)
    /\ was_move' = TRUE
    /\ hist' = [hist EXCEPT !.cells = Append(@, <<x, y>>), !.moves = @ + 1]
    /\ i' = i + 1
    /\ UNCHANGED pc

\* An iteration whose sampled cell is not satisfied while emptycells is empty:
\* np.random.randint(0) raises ValueError, which nothing catches.
SampleFault(x, y) ==
    /\ ~is_satisfied(x, y, grid, similarity_threshold)
    /\ Len(emptycells) = 0
    /\ pc' = "fault"
    /\ sample' = Sampled("fault", x, y, 0, <<x, y>>)
    /\ hist' = [hist EXCEPT !.cells = Append(@, <<x, y>>)]
    /\ UNCHANGED <<grid, emptycells, was_move, i>>

\* One iteration of for _ in range(agents_per_step).
Sample ==
    /\ pc = "loop"
    /\ i < agents_per_step
    /\ \E x \in 0 .. size - 1, y \in 0 .. size - 1 :
        \/ SampleSatisfied(x, y)
        \/ SampleMove(x, y)
        \/ SampleFault(x, y)
    /\ UNCHANGED <<params, ticks, similarity>>

\* return grid,emptycells,was_move
UpdateReturn ==
    /\ pc = "loop"
    /\ i = agents_per_step
    /\ pc' = "returned"
    /\ UNCHANGED <<params, grid, emptycells, i, was_move, ticks, sample, similarity,
                   hist>>

----------------------------------------------------------------------------
(* The drivers *)

\* The experiment prints average_neighbor_similarity(grid) before its loop.
MeasureBefore ==
    /\ pc = "start"
    /\ driver = "experiment"
    /\ similarity' = average_neighbor_similarity(grid)
    /\ pc' = "driver"
    /\ UNCHANGED <<params, grid, emptycells, i, was_move, ticks, sample, hist>>

\* The animation's frame 0 displays the initial grid and calls nothing.
FirstFrame ==
    /\ pc = "start"
    /\ driver = "animation"
    /\ pc' = "driver"
    /\ UNCHANGED <<params, grid, emptycells, i, was_move, ticks, sample, similarity,
                   hist>>

\* The experiment loops: if not was_move: break.  The animation ignores the
\* flag.
DriverNext ==
    /\ pc = "returned"
    /\ pc' = IF driver = "experiment" /\ ~was_move THEN "done" ELSE "driver"
    /\ UNCHANGED <<params, grid, emptycells, i, was_move, ticks, sample, similarity,
                   hist>>

\* The range of the driver's loop is exhausted.
DriverEnd ==
    /\ pc = "driver"
    /\ ticks = MaxTicks
    /\ pc' = "done"
    /\ UNCHANGED <<params, grid, emptycells, i, was_move, ticks, sample, similarity,
                   hist>>

\* The experiment evaluates average_neighbor_similarity(grid) after its loop.
MeasureAfter ==
    /\ pc = "done"
    /\ driver = "experiment"
    /\ similarity' = average_neighbor_similarity(grid)
    /\ pc' = "measured"
    /\ UNCHANGED <<params, grid, emptycells, i, was_move, ticks, sample, hist>>

Next ==
    \/ MeasureBefore
    \/ FirstFrame
    \/ CallUpdate
    \/ Sample
    \/ UpdateReturn
    \/ DriverNext
    \/ DriverEnd
    \/ MeasureAfter

Spec == Init /\ [][Next]_vars

----------------------------------------------------------------------------
(* The evaluators applied to every cell of every grid *)

\* Draws under which initialize_grid(n, 0.5, 0.5) makes a cell Empty, TypeA
\* and TypeB: every grid of codes is an outcome.
AnyCellDraws == {<<Zero, Zero>>, <<Half, Zero>>, <<Half, Half>>}

InitEval ==
    InitFrom(1 .. MaxEvalSize, {Half}, AnyCellDraws, Thresholds, {1},
             {"experiment"}, "eval")

\* is_satisfied(x, y, grid, similarity_threshold), which calls
\* fraction_neighbors_same(x, y, grid), at a cell of the grid.
Evaluate ==
    /\ pc = "eval"
    /\ \E x \in 0 .. size - 1, y \in 0 .. size - 1 :
        sample' = Sampled("eval", x, y, 0, <<x, y>>)
    /\ pc' = "evaluated"
    /\ UNCHANGED <<params, grid, emptycells, i, was_move, ticks, similarity, hist>>

\* average_neighbor_similarity(grid) on the grid.
Average ==
    /\ pc = "eval"
    /\ similarity' = average_neighbor_similarity(grid)
    /\ pc' = "averaged"
    /\ UNCHANGED <<params, grid, emptycells, i, was_move, ticks, sample, hist>>

NextEval ==
    \/ Evaluate
    \/ Average

SpecEval == InitEval /\ [][NextEval]_vars

----------------------------------------------------------------------------
(* Properties of the simulation runs (Spec) *)

\* The number of cells of g holding code.
CountOf(g, code) == Cardinality({c \in DOMAIN g : g[c] = code})

\* The number of entries of the list that are the coordinate c.
Entries(ec, c) == Cardinality({k \in 1 .. Len(ec) : ec[k] = c})

\* Some occupied cell of the grid is not satisfied at the run's threshold.
SomeoneUnsatisfied ==
    \E c \in Coords(size) :
        grid[c] # 0 /\ ~is_satisfied(c[1], c[2], grid, similarity_threshold)

\* C1: in every state, after initialize_grid and during and after every call
\* of update, the list of empty cells is in bijection with the Empty cells of
\* the grid: its length is the number of cells holding 0, every cell holding 0
\* is in it exactly once, and no cell holding 1 or 2 is in it.
C1_EmptyListMatchesGrid ==
    /\ Len(emptycells) = CountOf(grid, 0)
    /\ \A c \in Coords(size) :
        /\ grid[c] = 0 => Entries(emptycells, c) = 1
        /\ grid[c] \in {1, 2} => Entries(emptycells, c) = 0
    /\ \A k \in 1 .. Len(emptycells) : emptycells[k] \in Coords(size)

\* C1's case: update has returned after relocating an agent on a grid with
\* several empty cells, in a call after the first.
C1_Witness ==
    /\ pc = "returned"
    /\ hist.moves > 0
    /\ Len(emptycells) > 1
    /\ ticks > 1

\* C2: the numbers of Empty, TypeA and TypeB cells are, in every state, those
\* of the grid initialize_grid returned.
C2_PopulationConserved ==
    \A code \in {0, 1, 2} : CountOf(grid, code) = CountOf(initial.grid, code)

\* C2's case: both types and an empty cell are present, and the grid is no
\* longer the initial one after two calls that each relocated an agent.
C2_Witness ==
    /\ pc = "returned"
    /\ ticks > 1
    /\ hist.moves > 0
    /\ hist.grid0 # initial.grid
    /\ grid # initial.grid
    /\ \A code \in {0, 1, 2} : CountOf(grid, code) > 0

\* C3 (as claimed): an iteration of update's loop that runs while the list of
\* empty cells is empty never faults: whatever cell it samples, it leaves the
\* grid and the list as they are and the loop goes on to the next iteration.
C3_ExhaustionIsGuarded ==
    [][(pc = "loop" /\ i < agents_per_step /\ Len(emptycells) = 0)
        => /\ pc' = "loop"
           /\ i' = i + 1
           /\ grid' = grid
           /\ emptycells' = emptycells]_vars

\* C4 (as claimed): when update has returned was_move = False, every occupied
\* cell of the grid is satisfied at the run's threshold.
C4_NoMoveMeansConverged ==
    (pc = "returned" /\ ~was_move) => ~SomeoneUnsatisfied

\* C4 (amended): when update has returned was_move = False, the call changed
\* neither the grid nor the list, and each of the agents_per_step cells it
\* sampled is satisfied (Empty cells included) on the grid it returns.
C4_NoMoveMeansSamplesSatisfied ==
    (pc = "returned" /\ ~was_move)
        => /\ grid = hist.grid0
           /\ emptycells = hist.empty0
           /\ hist.moves = 0
           /\ Len(hist.cells) = agents_per_step
           /\ \A k \in 1 .. Len(hist.cells) :
                is_satisfied(hist.cells[k][1], hist.cells[k][2], grid,
                             similarity_threshold)

\* C4's case: update has returned was_move = False on a grid with an empty
\* cell to move to and an agent that wants to move.
C4_Witness ==
    /\ pc = "returned"
    /\ ~was_move
    /\ Len(emptycells) > 0
    /\ SomeoneUnsatisfied

C6_RelocationEffect ==
    [][hist'.moves = hist.moves + 1
        => LET from == <<sample'.x, sample'.y>>
               k == sample'.randindex + 1
               to == emptycells[k]
           IN  /\ grid[from] \in {1, 2}
               /\ grid'[from] = 0
               /\ grid'[to] = grid[from]
               /\ emptycells'[k] = from
               /\ sample'.dest = to]_vars

\* C6's case: an iteration has just relocated an agent, to an entry of the list
\* other than its first.
C6_Witness ==
    /\ sample.kind = "moved"
    /\ sample.randindex > 0
    /\ grid[sample.dest] \in {1, 2}

\* C7: in every state the grid is defined on exactly the size x size
\* coordinates and every one of them holds 0, 1 or 2.
C7_ValidCodes ==
    /\ DOMAIN grid = Coords(size)
    /\ \A c \in Coords(size) : grid[c] \in {0, 1, 2}

\* C7's case: after relocations in two calls of update, the three codes are
\* all on the grid.
C7_Witness ==
    /\ ticks > 1
    /\ sample.kind = "moved"
    /\ hist.grid0 # initial.grid
    /\ {grid[c] : c \in Coords(size)} = {0, 1, 2}

----------------------------------------------------------------------------
(* Properties of the evaluators (SpecEval) *)

\* The eight non-zero offsets of the Moore neighbourhood.
Offsets == {d \in (-1 .. 1) \X (-1 .. 1) : d # <<0, 0>>}

\* The row or column of the torus that v, which may be one step off the grid,
\* stands for: the one in 0 .. size-1 that differs from v by a multiple of size.
Around(v) == CHOOSE w \in 0 .. size - 1 : \E q \in -1 .. 1 : w = v + q * size

\* The cell of the torus at offset d from (x, y).
Torus(x, y, d) == <<Around(x + d[1]), Around(y + d[2])>>

\* The offsets at which (x, y) has a non-Empty neighbour, and those at which
\* the neighbour has the code of (x, y) itself.
OccupiedAround(x, y) == {d \in Offsets : grid[Torus(x, y, d)] # 0}
AlikeAround(x, y) == {d \in Offsets : grid[Torus(x, y, d)] = grid[<<x, y>>]}

C9_FractionOfOccupiedNeighbours ==
    sample.kind = "eval"
        => LET total == Cardinality(OccupiedAround(sample.x, sample.y))
               same == Cardinality(AlikeAround(sample.x, sample.y)
                                       \cap OccupiedAround(sample.x, sample.y))
           IN  /\ sample.frac.none
                    <=> (grid[<<sample.x, sample.y>>] = 0 \/ total = 0)
               /\ ~sample.frac.none
                    => /\ sample.frac.val * total = same * Scale
                       /\ 0 <= same /\ same <= total /\ total <= 8
                       /\ 0 <= sample.frac.val /\ sample.frac.val <= Scale

\* C9's case: on a 3 x 3 grid, a cell with Empty neighbours, neighbours of its
\* own type and neighbours of the other type.
C9_Witness ==
    /\ sample.kind = "eval"
    /\ size = 3
    /\ ~sample.frac.none
    /\ Cardinality(OccupiedAround(sample.x, sample.y)) \in 3 .. 7
    /\ sample.frac.val \in 1 .. Scale - 1

\* The neighbour lookups `looked` from (x, y) are 8, each a coordinate of the
\* grid, and they are the wrapped images of the 8 offsets, each taken once.
EightWrapped(x, y, looked) ==
    LET image == [d \in Offsets |-> Torus(x, y, d)]
    IN  /\ Len(looked) = 8
        /\ \A k \in 1 .. Len(looked) : looked[k] \in Coords(size)
        /\ \A c \in Coords(size) :
            Cardinality({k \in 1 .. Len(looked) : looked[k] = c})
                = Cardinality({d \in Offsets : image[d] = c})

----------------------------------------------------------------------------
(* Properties of average_neighbor_similarity *)

\* The cells of the grid at which a similarity is defined: occupied, with a
\* non-Empty neighbour on the torus.
DefinedAt ==
    {c \in Coords(size) : grid[c] # 0 /\ OccupiedAround(c[1], c[2]) # {}}

\* same / total at a cell of DefinedAt, over Scale.
FractionAt(c) ==
    (Cardinality(AlikeAround(c[1], c[2]) \cap OccupiedAround(c[1], c[2])) * Scale)
        \div Cardinality(OccupiedAround(c[1], c[2]))

\* The sum of FractionAt over a set of cells.
RECURSIVE SumOver(_)
SumOver(S) ==
    IF S = {} THEN 0
    ELSE LET c == CHOOSE c \in S : TRUE
         IN  FractionAt(c) + SumOver(S \ {c})

C12_NaNWhenNothingDefined ==
    (pc = "averaged" /\ DefinedAt = {}) => similarity = NaN

\* C12's case: a 3 x 3 grid that is not all Empty, its one agent having only
\* Empty neighbours, has been averaged.
C12_Witness ==
    /\ pc = "averaged"
    /\ size = 3
    /\ \E c \in Coords(size) : grid[c] # 0
    /\ DefinedAt = {}
    /\ similarity.kind = "nan"

\* C13: initialize_grid(size, 0, 1.0) returns, whatever the draws, a grid of
\* TypeA cells only and an empty list, and average_neighbor_similarity of that
\* grid is 1.0 exactly, a mean over all size * size cells.
C13_AllTypeAIsOne ==
    (fraction_empty = Zero /\ fraction_A = One)
        => /\ \A c \in Coords(size) : initial.grid[c] = 1
           /\ initial.emptycells = << >>
           /\ (driver = "experiment" /\ pc # "start")
                => /\ similarity.kind = "value"
                   /\ similarity.count = size * size
                   /\ similarity.sum = similarity.count * Scale

\* C13's case: the experiment has averaged the 2 x 2 grid made by
\* initialize_grid(2, 0, 1.0), before calling update.
C13_Witness ==
    /\ fraction_empty = Zero
    /\ fraction_A = One
    /\ size = 2
    /\ driver = "experiment"
    /\ pc = "driver"
    /\ ticks = 0
    /\ similarity.kind = "value"

----------------------------------------------------------------------------
(* Properties of update's iterations and of the driver loop (Spec) *)

\* The offsets at which the cell c of the grid g has a non-Empty neighbour on
\* the torus, and those at which the neighbour has c's own code.
NeighboursOn(g, c) == {d \in Offsets : g[Torus(c[1], c[2], d)] # 0}
AlikeOn(g, c) == {d \in NeighboursOn(g, c) : g[Torus(c[1], c[2], d)] = g[c]}

\* The agent at c wants to move: c is occupied, has a non-Empty neighbour, and
\* the share of its non-Empty neighbours that have its type is below thr.
WantsToMove(g, c, thr) ==
    /\ g[c] # 0
    /\ NeighboursOn(g, c) # {}
    /\ Cardinality(AlikeOn(g, c)) * thr[2] < thr[1] * Cardinality(NeighboursOn(g, c))

\* No agent of g wants to move.
FixedPoint(g) ==
    \A c \in Coords(size) : ~WantsToMove(g, c, similarity_threshold)

\* The cell the iteration that is being made samples.
Drawn == <<sample'.x, sample'.y>>

\* An iteration of update's loop is about to be made.
InLoop == pc = "loop" /\ i < agents_per_step

\* Threshold 1.01 on a grid with both types and an Empty cell.
Churning ==
    /\ similarity_threshold = <<101, 100>>
    /\ CountOf(grid, 1) > 0
    /\ CountOf(grid, 2) > 0
    /\ CountOf(grid, 0) > 0

C15_FlagIffRelocated ==
    /\ was_move <=> hist.moves > 0
    /\ (grid # hist.grid0 \/ emptycells # hist.empty0) => was_move
    /\ pc = "returned" => Len(hist.cells) = agents_per_step

\* C15's case: update has returned True after a relocation by its first
\* iteration and a satisfied sample in its second.
C15_Witness ==
    /\ pc = "returned"
    /\ agents_per_step = 2
    /\ was_move
    /\ hist.moves = 1
    /\ sample.kind = "satisfied"

\* C16: every iteration decides on the grid as the iterations before it left
\* it: the sampled agent is relocated exactly when it wants to move on the
\* current grid (and the list is not empty), to a cell that is Empty on the
\* current grid; a sampled cell that does not want to move on the current
\* grid, such as one vacated earlier in the call, changes nothing; and every
\* cell sampled earlier in the call that is Empty now is in the list, so it
\* can be chosen as a destination.
C16_MovesApplyAtOnce ==
    [][InLoop
        => /\ sample'.sat = ~WantsToMove(grid, Drawn, similarity_threshold)
           /\ (WantsToMove(grid, Drawn, similarity_threshold) /\ Len(emptycells) > 0)
                => /\ hist'.moves = hist.moves + 1
                   /\ grid[sample'.dest] = 0
                   /\ grid'[sample'.dest] = grid[Drawn]
           /\ ~WantsToMove(grid, Drawn, similarity_threshold)
                => /\ grid' = grid
                   /\ emptycells' = emptycells
                   /\ hist'.moves = hist.moves
           /\ \A k \in 1 .. Len(hist.cells) :
                grid[hist.cells[k]] = 0 => Entries(emptycells, hist.cells[k]) = 1]_vars

\* C16's case: the second iteration of a call has relocated an agent that did
\* not want to move on the grid the call started with, into the cell the first
\* iteration vacated.
C16_Witness ==
    /\ sample.kind = "moved"
    /\ Len(hist.cells) = 2
    /\ hist.moves = 2
    /\ sample.dest = hist.cells[1]
    /\ ~WantsToMove(hist.grid0, hist.cells[2], similarity_threshold)

\* C17: in every relocation the source is an occupied cell, the destination is
\* Empty just before the move and is another cell than the source; every other
\* agent stays where it is, and no coordinate is in the list twice after it.
C17_MovesIntoEmptyCells ==
    [][hist'.moves = hist.moves + 1
        => LET to == emptycells[sample'.randindex + 1]
           IN  /\ grid[Drawn] \in {1, 2}
               /\ grid[to] = 0
               /\ to # Drawn
               /\ \A c \in Coords(size) \ {Drawn} :
                    grid[c] # 0 => grid'[c] = grid[c]
               /\ \A c \in Coords(size) : Entries(emptycells', c) <= 1]_vars

\* C17's case: a second relocation within one call, on a grid with both types
\* and several empty cells.
C17_Witness ==
    /\ sample.kind = "moved"
    /\ hist.moves = 2
    /\ Len(emptycells) > 1
    /\ CountOf(grid, 1) > 0
    /\ CountOf(grid, 2) > 0

\* Where the experiment's cell has ended: after its second print.
Ended == pc = "measured"

\* C18 (as claimed): the experiment's loop calls update at most MaxTicks times
\* (100 in the code), every call makes exactly agents_per_step iterations, the
\* loop stops at the first call that returns False and otherwise after the
\* last, and the run then evaluates average_neighbor_similarity on the final
\* grid: no call of update is left by an exception, which would end the run
\* before that evaluation.
C18_DriverLoopTerminates ==
    driver = "experiment"
        => /\ ticks <= MaxTicks
           /\ (pc \notin {"start", "loop"} /\ ticks > 0)
                => Len(hist.cells) = agents_per_step
           /\ (pc = "driver" /\ ticks > 0) => was_move
           /\ pc \in {"done", "measured"} => (~was_move \/ ticks = MaxTicks)
           /\ Ended => similarity = average_neighbor_similarity(grid)
           /\ pc # "fault"

\* C19: a step of the run changes either nothing of the grid and the list, or
\* exactly two cells of the grid, the sampled cell and the destination, and
\* exactly one entry of the list; the list keeps its length and the grid its
\* coordinates; size, threshold and agents_per_step never change; an iteration
\* whose sample is Empty or satisfied changes nothing; and outside update's
\* loop, where average_neighbor_similarity is evaluated, nothing changes.
C19_FrameOfUpdate ==
    [][LET cells == {c \in Coords(size) : grid'[c] # grid[c]}
           entries == {k \in 1 .. Len(emptycells) : emptycells'[k] # emptycells[k]}
       IN  /\ UNCHANGED <<size, similarity_threshold, agents_per_step>>
           /\ DOMAIN grid' = DOMAIN grid
           /\ Len(emptycells') = Len(emptycells)
           /\ \/ cells = {} /\ entries = {}
              \/ /\ InLoop
                 /\ cells = {Drawn, sample'.dest}
                 /\ Cardinality(cells) = 2
                 /\ entries = {sample'.randindex + 1}
           /\ (InLoop /\ sample'.sat) => (cells = {} /\ entries = {})
           /\ ~InLoop => (cells = {} /\ entries = {})]_vars

\* C19's case: one relocation in the current call, which differs from the
\* call's first grid in two cells and from its first list in one entry.
C19_Witness ==
    /\ sample.kind = "moved"
    /\ hist.moves = 1
    /\ Len(emptycells) > 1
    /\ Cardinality({c \in Coords(size) : grid[c] # hist.grid0[c]}) = 2
    /\ Cardinality({k \in 1 .. Len(emptycells) :
                        emptycells[k] # hist.empty0[k]}) = 1

\* C20: on a grid where no agent wants to move, every step leaves the grid and
\* the list as they are, none faults and none sets was_move, so the grid is
\* again one where no agent wants to move; and a call of update that started
\* on such a grid returns False.
C20_FixedPointStays ==
    [][FixedPoint(grid)
        => /\ grid' = grid
           /\ emptycells' = emptycells
           /\ pc' # "fault"
           /\ was_move' => was_move
           /\ (pc' = "returned" /\ FixedPoint(hist'.grid0)) => ~was_move']_vars

\* C20's case: at threshold 0.5, on a grid with empty cells where agents have
\* neighbours and none wants to move, a second call of update has returned
\* False with the grid as it was.
C20_Witness ==
    /\ pc = "returned"
    /\ similarity_threshold = Half
    /\ ticks > 1
    /\ CountOf(grid, 0) > 0
    /\ grid = initial.grid
    /\ FixedPoint(grid)
    /\ DefinedAt # {}
    /\ ~was_move

=============================================================================
